---- MODULE Spec2Model ----
(***************************************************************************)
(* Model of scripts/language-pack/copy_model.py: the line classifier, the  *)
(* path extractor, the destination namer, the operation planner and the    *)
(* operation executor.  Python strings are sequences of one-character      *)
(* strings, so that split, partition, replace, splitext, basename,         *)
(* normpath and join are computed character by character.                  *)
(***************************************************************************)
EXTENDS Integers, Sequences, FiniteSets, TLC

VARIABLES
    opts,                   \* parsed command line: dest_dir, force, symlink, absolute, copy_config_options, config
    fs,                     \* the filesystem: existing path -> kind
    pc,                     \* position of the process
    operations,             \* the list collect_operations builds
    config_lines,           \* config_text.split('\n')
    result_config_lines,    \* the rewritten lines
    i,                      \* loop index of collect_operations / execute_operations
    duplicate_name_counts,  \* module-level registry of get_unique_dest
    status,                 \* process exit status, -1 while running
    ret,                    \* value returned (or exception raised) by the last call
    input,                  \* the pieces the enumerated input was assembled from
    history                 \* record of the calls made / operations executed so far

vars == << opts, fs, pc, operations, config_lines, result_config_lines, i,
           duplicate_name_counts, status, ret, input, history >>

----------------------------------------------------------------------------
(* Bounds *)
MaxToks == 3        \* tokens in one enumerated configuration line
MaxLines == 2       \* lines in one enumerated configuration file
MaxCalls == 4       \* get_unique_dest calls in one enumerated run

----------------------------------------------------------------------------
(* Python string primitives *)

IsSpace(c) == c \in {" ", "\t", "\r"}

RECURSIVE SplitWS(_, _, _)
SplitWS(s, cur, acc) ==
    IF s = <<>>
    THEN IF cur = <<>> THEN acc ELSE Append(acc, cur)
    ELSE IF IsSpace(Head(s))
         THEN SplitWS(Tail(s), <<>>, IF cur = <<>> THEN acc ELSE Append(acc, cur))
         ELSE SplitWS(Tail(s), Append(cur, Head(s)), acc)

\* str.split() with no argument: the maximal runs of non-whitespace
split(s) == SplitWS(s, <<>>, <<>>)

\* first index of character c in s, 0 when absent
find(s, c) ==
    IF \E k \in 1..Len(s) : s[k] = c
    THEN CHOOSE k \in 1..Len(s) : s[k] = c /\ \A j \in 1..(k-1) : s[j] # c
    ELSE 0

\* last index of character c in s, 0 when absent
rfind(s, c) ==
    IF \E k \in 1..Len(s) : s[k] = c
    THEN CHOOSE k \in 1..Len(s) : s[k] = c /\ \A j \in (k+1)..Len(s) : s[j] # c
    ELSE 0

\* str.partition(c): <<before, separator, after>>
partition(s, c) ==
    LET k == find(s, c)
    IN  IF k = 0 THEN << s, <<>>, <<>> >>
        ELSE << SubSeq(s, 1, k-1), <<c>>, SubSeq(s, k+1, Len(s)) >>

\* variant: str.replace(old, new, 1), only the first occurrence
RECURSIVE replace_first_only(_, _, _)
replace_first_only(s, old, new) ==
    IF Len(s) < Len(old) THEN s
    ELSE IF SubSeq(s, 1, Len(old)) = old
         THEN new \o SubSeq(s, Len(old)+1, Len(s))
         ELSE <<Head(s)>> \o replace_first_only(Tail(s), old, new)

RECURSIVE replace(_, _, _)
\* str.replace(old, new): every non-overlapping occurrence, left to right
replace(s, old, new) ==
    IF old = <<>>
    THEN IF s = <<>> THEN new ELSE new \o <<Head(s)>> \o replace(Tail(s), old, new)
    ELSE IF Len(s) < Len(old) THEN s
    ELSE IF SubSeq(s, 1, Len(old)) = old
         THEN new \o replace(SubSeq(s, Len(old)+1, Len(s)), old, new)
         ELSE <<Head(s)>> \o replace(Tail(s), old, new)

RECURSIVE join(_, _)
\* sep.join(parts)
join(sep, parts) ==
    IF parts = <<>> THEN <<>>
    ELSE IF Len(parts) = 1 THEN parts[1]
    ELSE parts[1] \o sep \o join(sep, Tail(parts))

Digits == << "0", "1", "2", "3", "4", "5", "6", "7", "8", "9" >>

RECURSIVE str_int(_)
\* "{0}".format(n) for a non-negative integer
str_int(n) ==
    IF n < 10 THEN << Digits[n+1] >>
    ELSE str_int(n \div 10) \o << Digits[(n % 10) + 1] >>

\* index of the first element of seq equal to x (list.index), 0 when absent
index(seq, x) ==
    IF \E k \in 1..Len(seq) : seq[k] = x
    THEN CHOOSE k \in 1..Len(seq) : seq[k] = x /\ \A j \in 1..(k-1) : seq[j] # x
    ELSE 0

Range(seq) == { seq[k] : k \in 1..Len(seq) }

----------------------------------------------------------------------------
(* os.path primitives *)

\* os.path.basename: what follows the last '/'
basename(p) == SubSeq(p, rfind(p, "/") + 1, Len(p))

\* os.path.splitext: split at the last '.', unless only dots precede it
splitext(p) ==
    LET sepIndex == rfind(p, "/")
        dotIndex == rfind(p, ".")
    IN  IF dotIndex > sepIndex
           /\ \E k \in (sepIndex+1)..(dotIndex-1) : p[k] # "."
        THEN << SubSeq(p, 1, dotIndex-1), SubSeq(p, dotIndex, Len(p)) >>
        ELSE << p, <<>> >>

RECURSIVE SplitOn(_, _, _, _)
SplitOn(s, c, cur, acc) ==
    IF s = <<>> THEN Append(acc, cur)
    ELSE IF Head(s) = c
         THEN SplitOn(Tail(s), c, <<>>, Append(acc, cur))
         ELSE SplitOn(Tail(s), c, Append(cur, Head(s)), acc)

\* str.split(c) with a one-character separator: empty pieces are kept
split_on(s, c) == SplitOn(s, c, <<>>, <<>>)

RECURSIVE NormComps(_, _, _)
NormComps(comps, new_comps, initial_slashes) ==
    IF comps = <<>> THEN new_comps
    ELSE LET comp == Head(comps)
         IN  IF comp = <<>> \/ comp = <<".">>
             THEN NormComps(Tail(comps), new_comps, initial_slashes)
             ELSE IF comp # <<".", ".">>
                     \/ (~initial_slashes /\ new_comps = <<>>)
                     \/ (new_comps # <<>> /\ new_comps[Len(new_comps)] = <<".", ".">>)
                  THEN NormComps(Tail(comps), Append(new_comps, comp), initial_slashes)
                  ELSE IF new_comps # <<>>
                       THEN NormComps(Tail(comps), SubSeq(new_comps, 1, Len(new_comps)-1),
                                      initial_slashes)
                       ELSE NormComps(Tail(comps), new_comps, initial_slashes)

\* os.path.normpath (posix): collapse '', '.' and '..' components
normpath(path) ==
    IF path = <<>> THEN <<".">>
    ELSE LET initial_slashes == (Head(path) = "/")
             body == join(<<"/">>, NormComps(split_on(path, "/"), <<>>, initial_slashes))
             res  == IF initial_slashes THEN <<"/">> \o body ELSE body
         IN  IF res = <<>> THEN <<".">> ELSE res

\* os.path.join(a, b) (posix)
path_join(a, b) ==
    IF b # <<>> /\ Head(b) = "/" THEN b
    ELSE IF a = <<>> \/ a[Len(a)] = "/" THEN a \o b
    ELSE a \o <<"/">> \o b

----------------------------------------------------------------------------
(* Module-level constants of copy_model.py *)

Str_lm      == << "l", "m" >>
Str_tm      == << "t", "m" >>
Str_path    == << "-", "p", "a", "t", "h" >>
Str_lm_file == << "-", "l", "m", "_", "f", "i", "l", "e" >>
Str_model   == << "m", "o", "d", "e", "l" >>

FILE_TYPE_TOKENS  == << Str_lm, Str_tm >>
FILE_TYPE_OPTIONS == << Str_path, Str_lm_file >>
OUTPUT_CONFIG_FILE_NAME ==
    << "j", "o", "s", "h", "u", "a", ".", "c", "o", "n", "f", "i", "g" >>
RUNNER_FILE_NAME == << "j", "o", "s", "h", "u", "a" >>

NoVal == <<>>

----------------------------------------------------------------------------
(* Line classifier and path extractor *)

\* line.partition('#'): LineParts(config, comment)
extract_line_parts(line) ==
    LET parts == partition(line, "#")
    IN  [config |-> parts[1], comment |-> parts[3]]

\* variant: a file-type keyword counts at any position, not only the first
line_specifies_path_any_token(line) ==
    LET line_parts == extract_line_parts(line)
        config_tokens == split(line_parts.config)
    IN  /\ line_parts.config # <<>>
        /\ config_tokens # <<>>
        /\ \/ Range(config_tokens) \cap Range(FILE_TYPE_TOKENS) # {}
           \/ Range(config_tokens) \cap Range(FILE_TYPE_OPTIONS) # {}

line_specifies_path(line) ==
    LET line_parts == extract_line_parts(line)
        config_tokens == split(line_parts.config)
    IN  IF line_parts.config = <<>> THEN FALSE
        ELSE IF config_tokens = <<>> THEN FALSE
        ELSE IF config_tokens[1] \in Range(FILE_TYPE_TOKENS) THEN TRUE
        ELSE IF Range(config_tokens) \cap Range(FILE_TYPE_OPTIONS) # {} THEN TRUE
        ELSE FALSE

\* seq[idx] with Python's zero-based, negative-wrapping index
getitem(seq, idx) ==
    LET n == Len(seq)
        j == IF idx < 0 THEN idx + n ELSE idx
    IN  IF j < 0 \/ j >= n
        THEN [exc |-> "IndexError", val |-> NoVal]
        ELSE [exc |-> "none", val |-> seq[j+1]]

\* the zero-based index the for/break loop of parse_path ends with
PathIndex(config_tokens, options) ==
    LET found == { k \in 1..Len(options) : options[k] \in Range(config_tokens) }
    IN  IF found = {} THEN -1
        ELSE LET k == CHOOSE k \in found : \A j \in found : k <= j
             IN  (index(config_tokens, options[k]) - 1) + 1

\* variant: the options are tried in the opposite order
parse_path_last_flag_wins(config_line) ==
    LET config_tokens == split(config_line)
    IN  getitem(config_tokens,
                PathIndex(config_tokens, << Str_lm_file, Str_path >>))

parse_path(config_line) ==
    LET config_tokens == split(config_line)
    IN  getitem(config_tokens, PathIndex(config_tokens, FILE_TYPE_OPTIONS))

----------------------------------------------------------------------------
(* Destination namer *)

NoCounts == [ n \in {} |-> 0 ]

CountsGet(counts, name) == IF name \in DOMAIN counts THEN counts[name] ELSE 0

\* variant: one counter for all names instead of one per name
get_unique_dest_shared_count(name, counts) ==
    LET times_seen == Cardinality(DOMAIN counts) + 1
        ext == splitext(name)
    IN  [ val |-> IF times_seen > 1
                  THEN ext[1] \o <<".">> \o str_int(times_seen) \o ext[2]
                  ELSE name,
          counts |-> [ n \in DOMAIN counts \cup {name} |->
                         IF n = name THEN times_seen ELSE counts[n] ] ]

\* returns the destination name and the updated duplicate_name_counts
get_unique_dest(name, counts) ==
    LET times_seen == CountsGet(counts, name) + 1
        ext == splitext(name)
    IN  [ val |-> IF times_seen > 1
                  THEN ext[1] \o <<".">> \o str_int(times_seen) \o ext[2]
                  ELSE name,
          counts |-> [ n \in DOMAIN counts \cup {name} |->
                         IF n = name THEN times_seen ELSE counts[n] ] ]

----------------------------------------------------------------------------
(* Filesystem *)

NoFs == [ p \in {} |-> "file" ]

\* os.path.exists
exists(f, path) == normpath(path) \in DOMAIN f

\* os.path.isdir
isdir(f, path) == exists(f, path) /\ f[normpath(path)] = "dir"

\* validate_path: TRUE when it returns, FALSE when it raises PathException
validate_path(f, path) == exists(f, path)

NoOp == [func |-> "none", args |-> <<>>]

\* returns the rewritten line, the queued operation and the updated registry,
\* or the exception raised
process_line_containing_path(line, dest_dir, symlink, absolute, counts, f) ==
    LET line_parts == extract_line_parts(line)
        parsed == parse_path(line_parts.config)
        src_path == parsed.val
        named == get_unique_dest(basename(src_path), counts)
        dest_name == named.val
        full_src_path == normpath(src_path)
        dest_path == path_join(path_join(dest_dir, Str_model), dest_name)
        updated_config ==
            replace(line_parts.config, src_path,
                    IF absolute THEN dest_path ELSE path_join(Str_model, dest_name))
    IN  IF parsed.exc # "none"
        THEN [exc |-> parsed.exc, line |-> line, operation |-> NoOp, counts |-> counts]
        ELSE IF ~validate_path(f, full_src_path)
        THEN [exc |-> "PathException", line |-> line, operation |-> NoOp,
              counts |-> named.counts]
        ELSE [exc |-> "none",
              line |-> IF line_parts.comment # <<>>
                       THEN join(<<"#">>, << updated_config, line_parts.comment >>)
                       ELSE updated_config,
              operation |-> [func |-> "recursive_copy",
                             args |-> << full_src_path, dest_path, symlink >>],
              counts |-> named.counts]

----------------------------------------------------------------------------
(* Enumerated inputs: one configuration line *)

Str_a   == << "a" >>
Str_s_a == << "s", "/", "a" >>
Str_d   == << "d" >>

Vocab == { Str_lm, Str_tm, Str_path, Str_lm_file, Str_a, Str_s_a }

TokSeqs == UNION { [1..n -> Vocab] : n \in 0..MaxToks }

\* whitespace before the first token and between tokens
Layouts == { [lead |-> <<>>, sep |-> << " " >>],
             [lead |-> << " " >>, sep |-> << "\t", " " >>] }

\* what follows the last token: nothing, or a '#' and a comment
Tails == { [ws |-> <<>>, hash |-> FALSE, comment |-> <<>>],
           [ws |-> <<>>, hash |-> TRUE,  comment |-> <<>>],
           [ws |-> << " " >>, hash |-> TRUE,
            comment |-> << " " >> \o Str_path \o << " " >> \o Str_a],
           [ws |-> <<>>, hash |-> TRUE,
            comment |-> Str_lm \o << "#" >> \o Str_a] }

LineInputs == [toks : TokSeqs, layout : Layouts, tail : Tails]

\* the config portion the pieces spell
ConfigOf(inp) == inp.layout.lead \o join(inp.layout.sep, inp.toks) \o inp.tail.ws

\* the line the pieces spell
LineOf(inp) ==
    ConfigOf(inp) \o (IF inp.tail.hash THEN << "#" >> \o inp.tail.comment ELSE <<>>)

\* the files the enumerated lines can refer to
LineFs == (Str_a :> "file") @@ (<< "s" >> :> "dir") @@ (Str_s_a :> "file")

NoOpts == [dest_dir |-> Str_d, force |-> FALSE, symlink |-> FALSE, absolute |-> FALSE,
           copy_config_options |-> FALSE]

InitLine ==
    /\ input \in LineInputs
    /\ config_lines = << LineOf(input) >>
    /\ opts = NoOpts
    /\ fs = LineFs
    /\ pc = "line"
    /\ operations = <<>>
    /\ result_config_lines = <<>>
    /\ i = 0
    /\ duplicate_name_counts = NoCounts
    /\ status = -1
    /\ ret = [fn |-> "none"]
    /\ history = <<>>

\* line_specifies_path(line)
Classify ==
    /\ pc = "line"
    /\ ret' = [fn |-> "line_specifies_path", val |-> line_specifies_path(config_lines[1])]
    /\ pc' = "classified"
    /\ history' = Append(history, ret')
    /\ UNCHANGED << opts, fs, operations, config_lines, result_config_lines, i,
                    duplicate_name_counts, status, input >>

\* parse_path(line_parts.config) on a line the classifier accepted
ParsePath ==
    /\ pc = "classified"
    /\ ret.val = TRUE
    /\ LET r == parse_path(extract_line_parts(config_lines[1]).config)
       IN  ret' = [fn |-> "parse_path", exc |-> r.exc, val |-> r.val]
    /\ pc' = "parsed"
    /\ history' = Append(history, ret')
    /\ UNCHANGED << opts, fs, operations, config_lines, result_config_lines, i,
                    duplicate_name_counts, status, input >>

\* process_line_containing_path(line, dest_dir, symlink, absolute)
ProcessLine ==
    /\ pc = "parsed"
    /\ \E symlink \in BOOLEAN, absolute \in BOOLEAN :
         LET r == process_line_containing_path(config_lines[1], opts.dest_dir, symlink,
                                               absolute, duplicate_name_counts, fs)
         IN  /\ ret' = [fn |-> "process_line_containing_path", exc |-> r.exc,
                        line |-> r.line, operation |-> r.operation,
                        symlink |-> symlink, absolute |-> absolute]
             /\ duplicate_name_counts' = r.counts
             /\ operations' = IF r.exc = "none" THEN << r.operation >> ELSE <<>>
             /\ result_config_lines' = IF r.exc = "none" THEN << r.line >> ELSE <<>>
    /\ pc' = "processed"
    /\ history' = Append(history, ret')
    /\ UNCHANGED << opts, fs, config_lines, i, status, input >>

NextLine == Classify \/ ParsePath \/ ProcessLine

SpecLine == InitLine /\ [][NextLine]_vars

----------------------------------------------------------------------------
(* Enumerated inputs: a sequence of get_unique_dest calls *)

Str_a_k   == << "a", ".", "k" >>
Str_a_2_k == << "a", ".", "2", ".", "k" >>
Str_b     == << "b" >>
Str_dot_k == << ".", "k" >>

\* each name with the stem and the extension it is written with (a name that
\* only starts with a dot has no extension)
NameParts == { [name |-> Str_a_k,   stem |-> << "a" >>,           ext |-> << ".", "k" >>],
               [name |-> Str_a_2_k, stem |-> << "a", ".", "2" >>, ext |-> << ".", "k" >>],
               [name |-> Str_b,     stem |-> Str_b,               ext |-> <<>>],
               [name |-> Str_dot_k, stem |-> Str_dot_k,           ext |-> <<>>] }

InitNamer ==
    /\ input = [fn |-> "get_unique_dest"]
    /\ config_lines = <<>>
    /\ opts = NoOpts
    /\ fs = NoFs
    /\ pc = "naming"
    /\ operations = <<>>
    /\ result_config_lines = <<>>
    /\ i = 0
    /\ duplicate_name_counts = NoCounts
    /\ status = -1
    /\ ret = [fn |-> "none"]
    /\ history = <<>>

\* get_unique_dest(name)
CallGetUniqueDest ==
    /\ pc = "naming"
    /\ Len(history) < MaxCalls
    /\ \E np \in NameParts :
         LET r == get_unique_dest(np.name, duplicate_name_counts)
         IN  /\ ret' = [fn |-> "get_unique_dest", val |-> r.val]
             /\ duplicate_name_counts' = r.counts
             /\ history' = Append(history, [arg |-> np, val |-> r.val])
    /\ UNCHANGED << opts, fs, pc, operations, config_lines, result_config_lines, i,
                    status, input >>

NextNamer == CallGetUniqueDest

SpecNamer == InitNamer /\ [][NextNamer]_vars

----------------------------------------------------------------------------
(* Filesystem operations the planner queues *)

IsPrefix(a, b) == Len(a) <= Len(b) /\ SubSeq(b, 1, Len(a)) = a

\* path is p or lies below the directory p
Under(p, path) == path = p \/ IsPrefix(p \o << "/" >>, path)

\* os.path.dirname; the empty string stands for the working directory
dirname(p) == SubSeq(p, 1, rfind(p, "/") - 1)

DirOrCwd(f, p) == p = <<>> \/ (p \in DOMAIN f /\ f[p] = "dir")

Ancestors(p) == { SubSeq(p, 1, k-1) : k \in { j \in 2..Len(p) : p[j] = "/" } }

Remove(f, gone) == [ q \in (DOMAIN f) \ gone |-> f[q] ]

\* shutil.rmtree(path)
rmtree_ok(f, path) == isdir(f, path)
rmtree(f, path) == Remove(f, { q \in DOMAIN f : Under(normpath(path), q) })

\* os.makedirs(path)
makedirs_ok(f, path) ==
    /\ ~exists(f, path)
    /\ \A a \in Ancestors(normpath(path)) : a \in DOMAIN f => f[a] = "dir"
makedirs(f, path) ==
    LET new == (Ancestors(normpath(path)) \cup {normpath(path)}) \ DOMAIN f
    IN  [ q \in new |-> "dir" ] @@ f

\* where shutil.copy(src, dest) writes: into dest when dest is a directory
CopyTarget(f, src, dest) ==
    IF isdir(f, dest) THEN path_join(normpath(dest), basename(src)) ELSE normpath(dest)

\* recursive_copy(src, dest, symlink)
recursive_copy_ok(f, src, dest, symlink) ==
    IF symlink
    THEN ~exists(f, dest) /\ DirOrCwd(f, dirname(normpath(dest)))
    ELSE IF isdir(f, src)
    THEN ~exists(f, dest)
    ELSE /\ exists(f, src)
         /\ DirOrCwd(f, dirname(CopyTarget(f, src, dest)))
         /\ ~isdir(f, CopyTarget(f, src, dest))
recursive_copy(f, src, dest, symlink) ==
    IF symlink
    THEN (normpath(dest) :> "link") @@ f
    ELSE IF isdir(f, src)
    THEN LET below == { q \in DOMAIN f : Under(normpath(src), q) }
             moved(q) == normpath(dest) \o SubSeq(q, Len(normpath(src)) + 1, Len(q))
         IN  [ t \in { moved(q) : q \in below } |->
                 f[CHOOSE q \in below : moved(q) = t] ] @@ makedirs(f, dest)
    ELSE (CopyTarget(f, src, dest) :> f[normpath(src)]) @@ f

\* write_string_to_file(path, text)
write_string_to_file_ok(f, path) ==
    DirOrCwd(f, dirname(normpath(path))) /\ ~isdir(f, path)
write_string_to_file(f, path) ==
    IF exists(f, path) THEN f ELSE (normpath(path) :> "file") @@ f

\* os.chmod(path, S_IREAD | S_IRGRP | S_IROTH | S_IEXEC | S_IXGRP | S_IXOTH)
chmod_ok(f, path) == exists(f, path)
chmod(f, path) ==
    [ q \in DOMAIN f |-> IF q = normpath(path) /\ f[q] = "file" THEN "xfile" ELSE f[q] ]

\* func(*args) returns
CanRun(f, op) ==
    CASE op.func = "rmtree" -> rmtree_ok(f, op.args[1])
      [] op.func = "makedirs" -> makedirs_ok(f, op.args[1])
      [] op.func = "recursive_copy" ->
            recursive_copy_ok(f, op.args[1], op.args[2], op.args[3])
      [] op.func = "write_string_to_file" -> write_string_to_file_ok(f, op.args[1])
      [] op.func = "chmod" -> chmod_ok(f, op.args[1])

\* the filesystem after func(*args)
Apply(f, op) ==
    CASE op.func = "rmtree" -> rmtree(f, op.args[1])
      [] op.func = "makedirs" -> makedirs(f, op.args[1])
      [] op.func = "recursive_copy" ->
            recursive_copy(f, op.args[1], op.args[2], op.args[3])
      [] op.func = "write_string_to_file" -> write_string_to_file(f, op.args[1])
      [] op.func = "chmod" -> chmod(f, op.args[1])

\* the filesystems func(*args) can leave behind when it raises: untouched, or
\* with a part of its work done
Partial(f, op) ==
    {f} \cup
    CASE op.func = "rmtree" ->
            IF rmtree_ok(f, op.args[1])
            THEN { Remove(f, { q \in DOMAIN f : Under(normpath(op.args[1]), q)
                                                /\ q # normpath(op.args[1]) }) }
            ELSE {}
      [] op.func = "makedirs" ->
            IF dirname(normpath(op.args[1])) # <<>>
               /\ makedirs_ok(f, dirname(normpath(op.args[1])))
            THEN { makedirs(f, dirname(normpath(op.args[1]))) }
            ELSE {}
      [] op.func = "recursive_copy" ->
            IF ~op.args[3] /\ isdir(f, op.args[1]) /\ ~exists(f, op.args[2])
            THEN { makedirs(f, op.args[2]) }
            ELSE {}
      [] op.func = "write_string_to_file" ->
            IF write_string_to_file_ok(f, op.args[1])
            THEN { write_string_to_file(f, op.args[1]) }
            ELSE {}
      [] op.func = "chmod" -> {}

----------------------------------------------------------------------------
(* Enumerated inputs: one run of main *)

Text_lm_s_a  == Str_lm \o << " " >> \o Str_s_a
Text_tm_t_a  == Str_tm \o << " ", "=", " " >> \o Str_path
                \o << " ", ".", "/", "t", "/", "a", " ", "#", " ", "c" >>
Text_lm_d_a  == Str_lm \o << " ", "d", "/", "m", "o", "d", "e", "l", "/", "a" >>
Text_top_n   == << "t", "o", "p", "-", "n", " ", "=", " ", "1" >>
Text_lm_s_b  == Str_lm \o << " ", "s", "/", "b" >>
Text_x_path  == << "x", " " >> \o Str_path

\* configuration lines, each with whether it names a path and the path it names
LineMenu ==
    { [text |-> Text_lm_s_a, bearing |-> TRUE,  src |-> Str_s_a],
      [text |-> Text_tm_t_a, bearing |-> TRUE,  src |-> << "t", "/", "a" >>],
      [text |-> Text_lm_d_a, bearing |-> TRUE,
       src |-> << "d", "/", "m", "o", "d", "e", "l", "/", "a" >>],
      [text |-> Text_top_n,  bearing |-> FALSE, src |-> <<>>],
      [text |-> Text_lm_s_b, bearing |-> TRUE,  src |-> << "s", "/", "b" >>],
      [text |-> Str_lm,      bearing |-> TRUE,  src |-> <<>>],
      [text |-> Text_x_path, bearing |-> TRUE,  src |-> <<>>] }

ConfigFiles == UNION { [1..n -> LineMenu] : n \in 0..MaxLines }

\* the text of a configuration file with the given lines
TextOf(lines) ==
    IF lines = <<>> THEN <<>>
    ELSE join(<< "\n" >>, [k \in 1..Len(lines) |-> lines[k].text]) \o << "\n" >>

\* sources only
FsFresh ==
    (<< "s" >> :> "dir") @@ (Str_s_a :> "file") @@ (<< "t" >> :> "dir")
    @@ (<< "t", "/", "a" >> :> "dir") @@ (<< "t", "/", "a", "/", "f" >> :> "file")

\* sources and a bundle left by an earlier run
FsOld ==
    (Str_d :> "dir") @@ (path_join(Str_d, Str_model) :> "dir")
    @@ (path_join(path_join(Str_d, Str_model), Str_a) :> "file")
    @@ (path_join(Str_d, OUTPUT_CONFIG_FILE_NAME) :> "file") @@ FsFresh

Str_mem == << "4", "g" >>

\* bundle_runner_text(mem): the launcher template with mem substituted
bundle_runner_text(mem) == << "#!/bin/bash ... mem=" >> \o mem \o << " ... exec java" >>

\* exit status of error_quit
error_quit_status == 2

Init ==
    /\ \E lines \in ConfigFiles, f \in {FsFresh, FsOld} :
         /\ input = [lines |-> lines, fs0 |-> f]
         /\ fs = f
         /\ \E force \in BOOLEAN, symlink \in BOOLEAN, absolute \in BOOLEAN,
               filter \in BOOLEAN :
              opts = [dest_dir |-> Str_d, force |-> force, symlink |-> symlink,
                      absolute |-> absolute, copy_config_options |-> filter,
                      config |-> TextOf(lines), mem |-> Str_mem]
    /\ pc = "dest"
    /\ operations = <<>>
    /\ config_lines = <<>>
    /\ result_config_lines = <<>>
    /\ i = 0
    /\ duplicate_name_counts = NoCounts
    /\ status = -1
    /\ ret = [fn |-> "none"]
    /\ history = <<>>

\* an exception reaches main's except clause: error_quit(e.message)
Raise(phase, exc) ==
    /\ pc' = "exit"
    /\ status' = error_quit_status
    /\ ret' = [fn |-> phase, exc |-> exc]
    /\ history' = Append(history, [kind |-> "raise", phase |-> phase, exc |-> exc])

\* variant: a forced removal is carried out at once instead of being queued
CheckDest_eager_rmtree ==
    /\ pc = "dest"
    /\ IF exists(fs, opts.dest_dir) /\ ~opts.force
       THEN /\ Raise("plan", "Exception")
            /\ UNCHANGED << operations, fs >>
       ELSE /\ fs' = IF exists(fs, opts.dest_dir) THEN rmtree(fs, opts.dest_dir) ELSE fs
            /\ operations' = << [func |-> "makedirs",
                                 args |-> << path_join(opts.dest_dir, Str_model) >>] >>
            /\ pc' = "read"
            /\ UNCHANGED << status, ret, history >>
    /\ UNCHANGED << opts, config_lines, result_config_lines, i,
                    duplicate_name_counts, input >>

\* collect_operations: the destination directory
CheckDest ==
    /\ pc = "dest"
    /\ IF exists(fs, opts.dest_dir) /\ ~opts.force
       THEN /\ Raise("plan", "Exception")
            /\ UNCHANGED << operations >>
       ELSE /\ operations' =
                 (IF exists(fs, opts.dest_dir)
                  THEN << [func |-> "rmtree", args |-> << opts.dest_dir >>] >>
                  ELSE <<>>)
                 \o << [func |-> "makedirs",
                        args |-> << path_join(opts.dest_dir, Str_model) >>] >>
            /\ pc' = "read"
            /\ UNCHANGED << status, ret, history >>
    /\ UNCHANGED << opts, fs, config_lines, result_config_lines, i,
                    duplicate_name_counts, input >>

Text_appended == << "m", "a", "r", "k", "-", "o", "o", "v", "s", " ", "=", " ", "f" >>

\* what copy-config.pl may print for a text: the text, or the text and an option line
FilterOutputs(config_text) ==
    { config_text, config_text \o Text_appended \o << "\n" >> }

\* collect_operations: read the configuration and filter it
ReadConfig ==
    /\ pc = "read"
    /\ \/ /\ opts.copy_config_options
          /\ Raise("plan", "CalledProcessError")
          /\ UNCHANGED << config_lines >>
       \/ /\ \E config_text \in IF opts.copy_config_options
                                THEN FilterOutputs(opts.config)
                                ELSE { opts.config } :
               config_lines' = split_on(config_text, "\n")
          /\ pc' = "loop"
          /\ UNCHANGED << status, ret, history >>
    /\ UNCHANGED << opts, fs, operations, result_config_lines, i,
                    duplicate_name_counts, input >>

\* collect_operations: one iteration of the loop over config_lines
PlanLine ==
    /\ pc = "loop"
    /\ i < Len(config_lines)
    /\ LET line == config_lines[i+1]
           r == process_line_containing_path(line, opts.dest_dir, opts.symlink,
                                             opts.absolute, duplicate_name_counts, fs)
       IN  IF ~line_specifies_path(line)
           THEN /\ result_config_lines' = Append(result_config_lines, line)
                /\ i' = i + 1
                /\ UNCHANGED << operations, duplicate_name_counts, pc, status, ret,
                                history >>
           ELSE IF r.exc # "none"
           THEN /\ Raise("plan", r.exc)
                /\ duplicate_name_counts' = r.counts
                /\ UNCHANGED << operations, result_config_lines, i >>
           ELSE /\ operations' = Append(operations, r.operation)
                /\ result_config_lines' = Append(result_config_lines, r.line)
                /\ duplicate_name_counts' = r.counts
                /\ i' = i + 1
                /\ UNCHANGED << pc, status, ret, history >>
    /\ UNCHANGED << opts, fs, config_lines, input >>

\* variant: the chmod is queued before the write of the runner
PlanFinish_chmod_first ==
    /\ pc = "loop"
    /\ i = Len(config_lines)
    /\ operations' = operations \o
         << [func |-> "write_string_to_file",
             args |-> << path_join(opts.dest_dir, OUTPUT_CONFIG_FILE_NAME),
                         join(<< "\n" >>, result_config_lines) \o << "\n" >> >>],
            [func |-> "chmod", args |-> << path_join(opts.dest_dir, RUNNER_FILE_NAME) >>],
            [func |-> "write_string_to_file",
             args |-> << path_join(opts.dest_dir, RUNNER_FILE_NAME),
                         bundle_runner_text(opts.mem) >>] >>
    /\ pc' = "exec"
    /\ i' = 0
    /\ UNCHANGED << opts, fs, config_lines, result_config_lines,
                    duplicate_name_counts, status, ret, input, history >>

\* collect_operations: joshua.config, the runner and its mode; then execute_operations starts
PlanFinish ==
    /\ pc = "loop"
    /\ i = Len(config_lines)
    /\ operations' = operations \o
         << [func |-> "write_string_to_file",
             args |-> << path_join(opts.dest_dir, OUTPUT_CONFIG_FILE_NAME),
                         join(<< "\n" >>, result_config_lines) \o << "\n" >> >>],
            [func |-> "write_string_to_file",
             args |-> << path_join(opts.dest_dir, RUNNER_FILE_NAME),
                         bundle_runner_text(opts.mem) >>],
            [func |-> "chmod", args |-> << path_join(opts.dest_dir, RUNNER_FILE_NAME) >>] >>
    /\ pc' = "exec"
    /\ i' = 0
    /\ UNCHANGED << opts, fs, config_lines, result_config_lines,
                    duplicate_name_counts, status, ret, input, history >>

\* execute_operations: func(*args) returns
ExecOp ==
    /\ pc = "exec"
    /\ i < Len(operations)
    /\ CanRun(fs, operations[i+1])
    /\ fs' = Apply(fs, operations[i+1])
    /\ i' = i + 1
    /\ history' = Append(history, [kind |-> "exec", idx |-> i + 1, before |-> fs])
    /\ UNCHANGED << opts, pc, operations, config_lines, result_config_lines,
                    duplicate_name_counts, status, ret, input >>

\* variant: the exception is swallowed and the loop goes on
OpRaises_and_continues ==
    /\ pc = "exec"
    /\ i < Len(operations)
    /\ fs' \in Partial(fs, operations[i+1])
    /\ i' = i + 1
    /\ history' = Append(history, [kind |-> "raise", phase |-> "exec", exc |-> "OSError",
                                   before |-> fs])
    /\ UNCHANGED << opts, pc, operations, config_lines, result_config_lines,
                    duplicate_name_counts, status, ret, input >>

\* execute_operations: func(*args) raises (its precondition fails, or an I/O
\* fault), and the exception reaches main's except clause
OpRaises ==
    /\ pc = "exec"
    /\ i < Len(operations)
    /\ fs' \in Partial(fs, operations[i+1])
    /\ pc' = "exit"
    /\ status' = error_quit_status
    /\ ret' = [fn |-> "exec", exc |-> "OSError"]
    /\ history' = Append(history, [kind |-> "raise", phase |-> "exec", exc |-> "OSError",
                                   before |-> fs])
    /\ UNCHANGED << opts, operations, config_lines, result_config_lines, i,
                    duplicate_name_counts, input >>

\* execute_operations returns and main ends
ExecDone ==
    /\ pc = "exec"
    /\ i = Len(operations)
    /\ pc' = "done"
    /\ status' = 0
    /\ UNCHANGED << opts, fs, operations, config_lines, result_config_lines, i,
                    duplicate_name_counts, ret, input, history >>

Next == CheckDest \/ ReadConfig \/ PlanLine \/ PlanFinish \/ ExecOp \/ OpRaises \/ ExecDone

Spec == Init /\ [][Next]_vars

----------------------------------------------------------------------------
(* Claims about the destination namer, under SpecNamer *)

\* C1: all basenames returned by the get_unique_dest calls of one run are
\* pairwise distinct.
C1_NamingInjective ==
    \A j, k \in 1..Len(history) : j # k => history[j].val # history[k].val

ClaimDigit(n) ==
    CASE n = 2 -> "2" [] n = 3 -> "3" [] n = 4 -> "4" [] n = 5 -> "5" [] n = 6 -> "6"
      [] n = 7 -> "7" [] n = 8 -> "8" [] n = 9 -> "9"

\* how many of the first k calls were made with the name of call k
Occurrence(k) ==
    Cardinality({ j \in 1..k : history[j].arg.name = history[k].arg.name })

\* C8: the first call with a basename returns it unchanged and the n-th call
\* (n >= 2) with the same basename returns stem.n.ext, n counting the calls
\* with that basename only.
C8_NthCallNaming ==
    \A k \in 1..Len(history) :
        history[k].val =
            IF Occurrence(k) = 1 THEN history[k].arg.name
            ELSE history[k].arg.stem \o << ".", ClaimDigit(Occurrence(k)) >>
                 \o history[k].arg.ext

\* a third call with a.k, made after a call with another name, returned a.3.k
C8_Witness ==
    /\ Len(history) = 4
    /\ history[1].arg.name = Str_a_k
    /\ history[2].arg.name = Str_b
    /\ history[3].arg.name = Str_a_k
    /\ history[4].arg.name = Str_a_k
    /\ history[4].val = << "a", ".", "3", ".", "k" >>

----------------------------------------------------------------------------
(* Claims about one configuration line, under SpecLine *)

ClaimKeywords == { Str_lm, Str_tm }
ClaimFlags == { Str_path, Str_lm_file }

\* C7: a line is classified path-bearing exactly when its config portion has a
\* token and either its first token is a file-type keyword or some token is a
\* path flag; what follows the '#' does not matter.
C7_ClassifierIsAllowList ==
    pc # "line" =>
        history[1].val =
            ( /\ input.toks # <<>>
              /\ \/ input.toks[1] \in ClaimKeywords
                 \/ \E k \in 1..Len(input.toks) : input.toks[k] \in ClaimFlags )

\* a keyword that is not the first token and a flag that is only in the
\* comment: classified as not path-bearing
C7_Witness ==
    /\ pc = "classified"
    /\ input.toks = << Str_a, Str_lm >>
    /\ input.tail.comment = << " " >> \o Str_path \o << " " >> \o Str_a
    /\ ret.val = FALSE

\* the flag extraction goes by: '-path' when present, else '-lm_file'
ClaimFlag == IF \E k \in 1..Len(input.toks) : input.toks[k] = Str_path
             THEN Str_path ELSE Str_lm_file

\* C5: with a flag present, the result is the token right after the first
\* occurrence of the first flag in priority order ('-path', then '-lm_file');
\* with no flag, it is the last token of the config portion.
C5_ExtractedToken ==
    pc = "parsed" =>
        LET t == input.toks
        IN  IF \E k \in 1..Len(t) : t[k] \in ClaimFlags
            THEN \A k \in 1..(Len(t) - 1) :
                    (t[k] = ClaimFlag /\ \A j \in 1..(k-1) : t[j] # ClaimFlag)
                    => (ret.exc = "none" /\ ret.val = t[k+1])
            ELSE ret.exc = "none" /\ ret.val = t[Len(t)]

\* both flags on the line, '-lm_file' first: the token after '-path' is returned
C5_Witness ==
    /\ pc = "parsed"
    /\ input.toks = << Str_lm_file, Str_path, Str_a >>
    /\ ret.val = Str_a

\* C6: a line the classifier accepts that has no path token (flags present
\* but none followed by a token, or a file-type keyword alone) makes
\* extraction fail with an index error.
C6_MalformedLineRaises ==
    pc = "parsed" =>
        LET t == input.toks
            flagNoToken ==
                /\ \E k \in 1..Len(t) : t[k] \in ClaimFlags
                /\ \A k \in 1..Len(t) : t[k] \in ClaimFlags => k = Len(t)
            keywordOnly == Len(t) = 1 /\ t[1] \in ClaimKeywords
        IN  (flagNoToken \/ keywordOnly) => ret.exc = "IndexError"

Matches(s, old, p) == p + Len(old) - 1 <= Len(s) /\ SubSeq(s, p, p + Len(old) - 1) = old

\* s with only its first occurrence of old replaced by new
ClaimReplaceFirst(s, old, new) ==
    IF \E p \in 1..Len(s) : Matches(s, old, p)
    THEN LET p == CHOOSE p \in 1..Len(s) :
                    Matches(s, old, p) /\ \A q \in 1..(p-1) : ~Matches(s, old, q)
         IN  SubSeq(s, 1, p-1) \o new \o SubSeq(s, p + Len(old), Len(s))
    ELSE s

RECURSIVE ClaimReplaceEvery(_, _, _, _)
\* s from position p on, with every occurrence of old (left to right, not
\* overlapping) replaced by new
ClaimReplaceEvery(s, old, new, p) ==
    IF p > Len(s) THEN <<>>
    ELSE IF Matches(s, old, p)
         THEN new \o ClaimReplaceEvery(s, old, new, p + Len(old))
         ELSE << s[p] >> \o ClaimReplaceEvery(s, old, new, p + 1)

\* the text the path is replaced by: every path that exists here has basename a
ClaimNewText ==
    IF ret.absolute THEN << "d", "/", "m", "o", "d", "e", "l", "/", "a" >>
    ELSE << "m", "o", "d", "e", "l", "/", "a" >>

WithComment(body) ==
    IF input.tail.comment # <<>> THEN body \o << "#" >> \o input.tail.comment ELSE body

\* C4 as stated: only the first occurrence of the extracted path text in the
\* config portion is replaced, every other character is kept, and a non-empty
\* comment is reattached after the '#'.
C4_FirstOccurrenceOnly ==
    (pc = "processed" /\ ret.exc = "none") =>
        ret.line = WithComment(ClaimReplaceFirst(ConfigOf(input), history[2].val,
                                                 ClaimNewText))

\* C4 amended: every occurrence of the extracted path text in the config
\* portion is replaced, every other character is kept, and a non-empty
\* comment is reattached after the '#'.
C4_EveryOccurrence ==
    (pc = "processed" /\ ret.exc = "none") =>
        ret.line = WithComment(ClaimReplaceEvery(ConfigOf(input), history[2].val,
                                                 ClaimNewText, 1))

\* the path a occurs as a token and inside the token s/a, and a comment follows
C4_Witness ==
    /\ pc = "processed"
    /\ ret.exc = "none"
    /\ input.toks = << Str_lm, Str_s_a, Str_a >>
    /\ input.tail.comment # <<>>
    /\ history[2].val = Str_a

----------------------------------------------------------------------------
(* Claims about one run, under Spec *)

PlanFailed ==
    \E j \in 1..Len(history) : history[j].kind = "raise" /\ history[j].phase = "plan"

\* C2: when planning fails, no queued operation is ever executed, the
\* filesystem is as it was before the run and the exit status is 2.
C2_PlanFailureLeavesNoTrace ==
    /\ pc \in {"dest", "read", "loop"} => (fs = input.fs0 /\ history = <<>>)
    /\ PlanFailed => /\ Len(history) = 1
                     /\ fs = input.fs0
                     /\ pc = "exit"
                     /\ status = 2

\* a missing source on a later line, after a removal, a makedirs and a copy
\* were queued
C2_Witness ==
    /\ pc = "exit"
    /\ ret = [fn |-> "plan", exc |-> "PathException"]
    /\ Len(operations) = 3
    /\ operations[1].func = "rmtree"
    /\ operations[3].func = "recursive_copy"

Planned == pc \in {"exec", "done"} \/ (pc = "exit" /\ ret.fn = "exec")

BearingLines == SelectSeq(input.lines, LAMBDA l : l.bearing)

ClaimHead ==
    (IF Str_d \in DOMAIN input.fs0 THEN << "rmtree" >> ELSE <<>>) \o << "makedirs" >>

ClaimFuncs ==
    ClaimHead \o [k \in 1..Len(BearingLines) |-> "recursive_copy"]
    \o << "write_string_to_file", "write_string_to_file", "chmod" >>

Str_d_joshua == << "d", "/", "j", "o", "s", "h", "u", "a" >>

\* C3: the queue is the removal of dest_dir (iff it existed, with force),
\* the creation of dest_dir/model, one copy per path-bearing line in line
\* order, the write of joshua.config, the write of the launcher and its
\* chmod; the operations are executed in that order, one after the other.
C3_QueueOrder ==
    Planned =>
        LET n == Len(operations)
            h == Len(ClaimHead)
        IN  /\ [k \in 1..n |-> operations[k].func] = ClaimFuncs
            /\ (Str_d \in DOMAIN input.fs0) => opts.force
            /\ operations[h].args[1] = << "d", "/", "m", "o", "d", "e", "l" >>
            /\ \A k \in 1..Len(BearingLines) :
                   operations[h + k].args[1] = BearingLines[k].src
            /\ operations[n-2].args[1] = Str_d_joshua \o << ".", "c", "o", "n", "f", "i", "g" >>
            /\ operations[n-1].args[1] = Str_d_joshua
            /\ operations[n].args[1] = Str_d_joshua
            /\ \A j \in 1..Len(history) :
                   history[j].kind = "exec" =>
                       /\ history[j].idx = j
                       /\ \A m \in 1..(j-1) : history[m].kind = "exec"

\* a forced run over an old bundle with two path-bearing lines ran to the end
C3_Witness ==
    /\ pc = "done"
    /\ Len(operations) = 7
    /\ operations[1].func = "rmtree"
    /\ Len(history) = 7

\* the path an operation works on
ClaimTarget(op) == IF op.func = "recursive_copy" THEN op.args[2] ELSE op.args[1]

\* C9: when an operation raises, no later operation is executed, nothing
\* already executed is undone (what was on disk outside the failing
\* operation's own target stays as it was), and the exit status is 2.
C9_ExecFailureStops ==
    \A j \in 1..Len(history) :
        (history[j].kind = "raise" /\ history[j].phase = "exec") =>
            /\ j = Len(history)
            /\ pc = "exit"
            /\ status = 2
            /\ i = j - 1
            /\ \A m \in 1..(j-1) : history[m].kind = "exec" /\ history[m].idx = m
            /\ \A q \in DOMAIN history[j].before :
                   ~Under(ClaimTarget(operations[j]), q)
                   => (q \in DOMAIN fs /\ fs[q] = history[j].before[q])

\* the fourth operation raised after three had changed the filesystem
C9_Witness ==
    /\ pc = "exit"
    /\ ret.fn = "exec"
    /\ i = 3
    /\ fs # input.fs0
    /\ operations[3].func = "recursive_copy"

\* C10: every source that passed the existence check during planning still
\* exists when its copy operation is about to be executed.
C10_ValidatedSourcesSurvive ==
    (pc = "exec" /\ i < Len(operations) /\ operations[i+1].func = "recursive_copy")
        => exists(fs, operations[i+1].args[1])

====
